---- MODULE Spec2Model ----
(***************************************************************************)
(* One turn of the Latest News Agent (backend/app/main.py): the /chat      *)
(* handler and openai_chat_with_tools in its two modes, with the two       *)
(* adapters exa_news_fetch and summarize_news.                             *)
(*                                                                         *)
(* Representation of Python values.                                        *)
(*  - A text (str) is a sequence of lexical pieces, each a TLA+ string.    *)
(*    A comma "," and a blank " " are always pieces of their own, so that  *)
(*    str.split(",") and str.strip() are computed piece by piece.          *)
(*  - A JSON value is a record [t, v]: t is "absent" (key not in the       *)
(*    mapping), "null" (None), "str" (v = <<text>>) or "list"              *)
(*    (v = the sequence of the texts of the list).                         *)
(*  - A mapping (dict) is a function from key names to such values.        *)
(***************************************************************************)
EXTENDS Integers, Sequences, FiniteSets, TLC

\* ---------------------------------------------------------------- bounds
\* tool calls the reasoning model may request in one turn, over all batches
MaxCalls == 2

\* ------------------------------------------------------ program constants
NumResults == 5
DefaultNumResults == 5
ErrorStatus == 400

\* ------------------------------------------------------------ JSON values
Absent == [t |-> "absent", v |-> <<>>]
Null == [t |-> "null", v |-> <<>>]
Str(s) == [t |-> "str", v |-> <<s>>]
List(l) == [t |-> "list", v |-> l]

\* str(x) as an f-string renders it: None is rendered "None"
Render(x) == IF x.t = "str" THEN x.v[1] ELSE <<"None">>

\* Python truthiness of x, where an absent key reads as None (dict.get)
Truthy(x) ==
  CASE x.t = "str" -> x.v[1] # <<>>
    [] x.t = "list" -> x.v # <<>>
    [] OTHER -> FALSE

\* d.get(k, default)
Get(d, k, default) == IF d[k].t = "absent" THEN default ELSE d[k]

required == <<"tone", "format", "language", "interaction", "topics">>
Recognized == {required[n] : n \in 1..Len(required)}
PrefKeys == Recognized \cup {"theme"}
EmptyPrefs == [k \in PrefKeys |-> Absent]

\* ------------------------------------------------------------------ texts
IsSpace(c) == c \in {" ", "\t", "\n"}

RECURSIVE LStrip(_)
LStrip(s) == IF s # <<>> /\ IsSpace(Head(s)) THEN LStrip(Tail(s)) ELSE s

RECURSIVE RStrip(_)
RStrip(s) ==
  IF s # <<>> /\ IsSpace(s[Len(s)]) THEN RStrip(SubSeq(s, 1, Len(s) - 1)) ELSE s

\* (mutant) the fields are kept untrimmed
Strip_none(s) == s

\* s.strip()
Strip(s) == LStrip(RStrip(s))

\* s.split(","): the fields between the commas; a text without a comma is
\* its own single field
RECURSIVE Split(_)
Split(s) ==
  IF \E n \in 1..Len(s) : s[n] = ","
  THEN LET n == CHOOSE m \in 1..Len(s) :
                  s[m] = "," /\ \A j \in 1..(m - 1) : s[j] # ","
       IN  <<SubSeq(s, 1, n - 1)>> \o Split(SubSeq(s, n + 1, Len(s)))
  ELSE <<s>>

\* sep.join(parts)
RECURSIVE Join(_, _)
Join(parts, sep) ==
  IF parts = <<>> THEN <<>>
  ELSE IF Len(parts) = 1 THEN parts[1]
  ELSE parts[1] \o sep \o Join(Tail(parts), sep)

\* -------------------------------------------------------- article records
Item(title, summary) ==
  [title |-> title, url |-> Null, summary |-> summary, publishedDate |-> Null]

ItemAB == Item(Str(<<"A">>), Str(<<"B">>))
ItemNoSummary == Item(Str(<<"C">>), Null)
ItemEmptySummary == Item(Null, Str(<<>>))

\* result lists the search provider may answer with (an empty one included)
ProviderResults ==
  { <<>>, <<ItemAB>>, <<ItemNoSummary, ItemEmptySummary>> }

\* --------------------------------------------------------- result dicts
\* A dict returned by an adapter or a tool: keys is the set of its keys,
\* the other fields hold the values of the keys that are present.
EmptyDict ==
  [keys |-> {}, results |-> <<>>, error |-> <<>>, summary |-> <<>>,
   warning |-> <<>>, preferences |-> EmptyPrefs]

\* ------------------------------------------------------ Retrieval Adapter
\* what the search provider does with one request: answer with a result
\* list, or fail (timeout, non-2xx status, malformed body)
ExaOutcomes ==
  { [kind |-> "ok", data |-> d, msg |-> <<>>] : d \in ProviderResults }
    \cup { [kind |-> "raise", data |-> <<>>, msg |-> <<"Read timed out">>] }

NoExaCall == [kind |-> "none", data |-> <<>>, msg |-> <<>>]

\* the outcomes exa_news_fetch can meet: without a key no request is sent
ExaOutcomesFor(key) == IF key THEN ExaOutcomes ELSE {NoExaCall}

\* data.get("results", [])[:num_results]
Truncate(data, n) == SubSeq(data, 1, IF Len(data) < n THEN Len(data) ELSE n)

exa_news_fetch(key, topic, num_results, out) ==
  IF ~key
  THEN [EmptyDict EXCEPT !.keys = {"error"},
                         !.error = <<"Missing EXA_API_KEY">>]
  ELSE IF out.kind = "ok"
  THEN [EmptyDict EXCEPT !.keys = {"results"},
                         !.results = Truncate(out.data, num_results)]
  ELSE [EmptyDict EXCEPT !.keys = {"error"}, !.error = out.msg]

\* -------------------------------------------------- Summarization Adapter
\* "- {title}: {summary or 'No summary available'}"
Bullet(it) ==
  <<"- ">> \o Render(it.title) \o <<": ">>
    \o (IF Truthy(it.summary) THEN Render(it.summary)
        ELSE <<"No summary available">>)

Bullets(items) ==
  Join([n \in 1..Len(items) |-> Bullet(items[n])], <<"\n">>)

\* what the language-model provider does with one summarization request:
\* fail, or answer with a body holding a text (or none) at each of the two
\* places the adapter looks at
SummOutcomes ==
  { [kind |-> "ok", output |-> Str(<<"Digest">>), choices |-> Absent, msg |-> <<>>],
    [kind |-> "ok", output |-> Absent, choices |-> Str(<<"Alt digest">>), msg |-> <<>>],
    [kind |-> "ok", output |-> Absent, choices |-> Null, msg |-> <<>>],
    [kind |-> "raise", output |-> Absent, choices |-> Absent,
     msg |-> <<"500 Server Error">>] }

NoSummCall == [kind |-> "none", output |-> Absent, choices |-> Absent, msg |-> <<>>]

\* the outcomes summarize_news can meet: without a key no request is sent
SummOutcomesFor(key) == IF key THEN SummOutcomes ELSE {NoSummCall}

\* the text taken from a provider body: primary place, else secondary
\* place, else ""
TextOut(out) ==
  LET text_out == IF Truthy(out.output) THEN out.output ELSE out.choices
  IN  IF Truthy(text_out) THEN Render(text_out) ELSE <<>>

\* (mutant) a failed call gives an empty summary next to the warning
summarize_news_emptyOnFailure(key, items, out) ==
  IF ~key
  THEN [EmptyDict EXCEPT !.keys = {"summary"}, !.summary = Bullets(items)]
  ELSE IF out.kind = "raise"
  THEN [EmptyDict EXCEPT !.keys = {"summary", "warning"}, !.warning = out.msg]
  ELSE [EmptyDict EXCEPT !.keys = {"summary"}, !.summary = TextOut(out)]

summarize_news(key, items, out) ==
  IF ~key
  THEN [EmptyDict EXCEPT !.keys = {"summary"}, !.summary = Bullets(items)]
  ELSE IF out.kind = "raise"
  THEN [EmptyDict EXCEPT !.keys = {"summary", "warning"},
                         !.summary = Bullets(items), !.warning = out.msg]
  ELSE [EmptyDict EXCEPT !.keys = {"summary"}, !.summary = TextOut(out)]

\* ------------------------------------------------------- Preference Store
\* [s.strip() for s in text.split(",") if s.strip()]
SplitTopics(text) ==
  LET fields == Split(text)
      stripped == [n \in 1..Len(fields) |-> Strip(fields[n])]
  IN  SelectSeq(stripped, LAMBDA f : f # <<>>)

\* (mutant) a topics text is stored as given
Stored_asGiven(k, x) == x

\* (mutant) a topics text is split only when it contains a comma
Stored_commaOnly(k, x) ==
  IF k = "topics" /\ x.t = "str" /\ (\E n \in 1..Len(x.v[1]) : x.v[1][n] = ",")
  THEN List(SplitTopics(x.v[1]))
  ELSE x

\* the value save_preferences stores for key k given the argument value x
Stored(k, x) ==
  IF k = "topics" /\ x.t = "str" THEN List(SplitTopics(x.v[1])) ELSE x

\* (mutant) every key of the arguments is written, null values included
save_preferences_all(p, fargs) ==
  [k \in PrefKeys |->
     IF fargs[k].t # "absent" THEN Stored(k, fargs[k]) ELSE p[k]]

\* (mutant) the arguments replace the preferences instead of updating them
save_preferences_replace(p, fargs) ==
  [k \in PrefKeys |->
     IF k \in Recognized /\ fargs[k].t \notin {"absent", "null"}
     THEN Stored(k, fargs[k])
     ELSE Absent]

\* the save_preferences branch: the preferences after the updates of fargs
save_preferences(p, fargs) ==
  [k \in PrefKeys |->
     IF k \in Recognized /\ fargs[k].t \notin {"absent", "null"}
     THEN Stored(k, fargs[k])
     ELSE p[k]]

\* ------------------------------------------------------------- onboarding
questions ==
  << <<"tone", <<"Preferred Tone of Voice (e.g., formal, casual, enthusiastic)?">> >>,
     <<"format", <<"Preferred Response Format (e.g., bullet points, paragraphs)?">> >>,
     <<"language", <<"Language Preference (e.g., English, Spanish)?">> >>,
     <<"interaction", <<"Interaction Style (e.g., concise, detailed)?">> >>,
     <<"topics", <<"Preferred News Topics (e.g., technology, sports, politics)?">> >> >>

\* (mutant) the loop over questions stops before the topics entry
Missing_noTopics(p) ==
  {n \in 1..(Len(questions) - 1) : ~Truthy(p[questions[n][1]])}

\* the positions in questions of the keys the loop finds unset
Missing(p) == {n \in 1..Len(questions) : ~Truthy(p[questions[n][1]])}

\* (mutant) the loop returns at the last unset key instead of the first
FirstMissing_last(p) == CHOOSE n \in Missing(p) : \A m \in Missing(p) : n >= m

\* the position at which the loop over questions returns
FirstMissing(p) == CHOOSE n \in Missing(p) : \A m \in Missing(p) : n <= m

\* (mutant) the fetch loop runs over every topic twice
TopicList_twice(topics) ==
  IF topics.t = "list" THEN topics.v \o topics.v
  ELSE <<Render(topics), Render(topics)>>

\* topics as the list the fetch loop runs over
TopicList(topics) ==
  IF topics.t = "list" THEN topics.v ELSE <<Render(topics)>>

\* one entry of result_texts
Section(topic, exa, summ) ==
  IF "results" \in exa.keys
  THEN <<"Topic: ">> \o topic \o <<"\n">> \o summ.summary
  ELSE <<"Topic: ">> \o topic \o <<"\nExa error: ">> \o exa.error

\* (mutant) the sections are joined by a line break, not by a blank line
JoinSections_newline(texts) == Join(texts, <<"\n">>)

\* "\n\n".join(result_texts)
JoinSections(texts) == Join(texts, <<"\n\n">>)

\* ---------------------------------------------------------- turn boundary
Message(role, content) == [role |-> role, content |-> content]

\* (mutant) the response carries the new assistant message only
messages_out_replyOnly(messages, assistant_msg) ==
  <<Message("assistant", assistant_msg)>>

\* req.messages + [Message(role="assistant", content=assistant_msg)]
messages_out(messages, assistant_msg) ==
  messages \o <<Message("assistant", assistant_msg)>>

\* (mutant) only the recognized keys are handed back
ChatResponse_recognizedOnly(messages, assistant_msg, updated) ==
  [messages |-> messages_out(messages, assistant_msg),
   updatedPreferences |->
     [k \in PrefKeys |-> IF k \in Recognized THEN updated[k] ELSE Absent]]

\* the response of chat for the result of openai_chat_with_tools
ChatResponse(messages, assistant_msg, updated) ==
  [messages |-> messages_out(messages, assistant_msg),
   updatedPreferences |-> updated]

NoResponse == [messages |-> <<>>, updatedPreferences |-> EmptyPrefs]

\* ------------------------------------------------------------- transcript
\* The content of a transcript entry: a text, or a label followed by the
\* JSON rendering of a preferences mapping or of a tool result.
Plain(text) ==
  [text |-> text, json |-> "none", preferences |-> EmptyPrefs, result |-> EmptyDict]

PrefsNote(label, p) ==
  [text |-> <<label>>, json |-> "preferences", preferences |-> p,
   result |-> EmptyDict]

ResultJson(r) ==
  [text |-> <<>>, json |-> "result", preferences |-> EmptyPrefs, result |-> r]

Entry(role, content, id) ==
  [role |-> role, content |-> content, tool_call_id |-> id]

sys_prompt ==
  <<"You are a Latest News Agent. First, ensure the following preferences are collected: tone, format, language, interaction, topics. Ask one question at a time until all are collected. When the user supplies a preference, call save_preferences with the structured values. After preferences are set, if the user requests news or summaries, use exa_news_fetch followed by summarize_news. Always return answers in the user's preferred language, tone, interaction style, and format.">>

\* oai_messages as built before the loop
InitialTranscript(messages, preferences) ==
  <<Entry("system", Plain(sys_prompt), "")>>
    \o [n \in 1..Len(messages) |->
          Entry(messages[n].role, Plain(messages[n].content), "")]
    \o <<Entry("system", PrefsNote("Current preferences JSON: ", preferences), "")>>

\* ------------------------------------------------------------- tool calls
ArgKeys == PrefKeys \cup {"topic", "style", "format_"}

Args(given) ==
  [k \in ArgKeys |-> IF k \in DOMAIN given THEN given[k] ELSE Absent]

ToolCall(name, given, items) ==
  [id |-> "", name |-> name, fargs |-> Args(given), items |-> items]

\* the tool calls the reasoning model is taken to request
ToolCallShapes ==
  { ToolCall("save_preferences", [tone |-> Str(<<"formal">>)], <<>>),
    ToolCall("save_preferences", [topics |-> Str(<<"tech", ",", "sports">>)], <<>>),
    ToolCall("save_preferences", [topics |-> Str(<<"tech", ",", " ", "sports">>)], <<>>),
    ToolCall("save_preferences", [topics |-> Str(<<"tech">>)], <<>>),
    ToolCall("save_preferences",
             [topics |-> Str(<<" ", "ai", " ", ",", ",", "world", " ", "news", ",">>)],
             <<>>),
    ToolCall("save_preferences",
             [topics |-> List(<<<<"ai">>>>), tone |-> Null,
              theme |-> Str(<<"dark">>)], <<>>),
    ToolCall("exa_news_fetch", [topic |-> Str(<<"ai">>)], <<>>),
    ToolCall("exa_news_fetch", <<>>, <<>>),
    ToolCall("summarize_news", [style |-> Str(<<"concise">>)],
             <<ItemNoSummary, ItemAB>>),
    ToolCall("get_weather", <<>>, <<>>) }

\* the batches of at most n tool calls, each call with its own call token
Batches(n, issued) ==
  UNION { { [j \in 1..k |-> [b[j] EXCEPT !.id = "call_" \o ToString(issued + j)]] :
              b \in [1..k -> ToolCallShapes] } : k \in 1..n }

\* ----------------------------------------------------------------- inputs
SetValue(k) ==
  CASE k = "tone" -> Str(<<"casual">>)
    [] k = "format" -> Str(<<"paragraphs">>)
    [] k = "language" -> Str(<<"Spanish">>)
    [] k = "interaction" -> Str(<<"detailed">>)
    [] k = "theme" -> Str(<<"dark">>)

StyleKeys == Recognized \ {"topics"}

TopicsValues ==
  { Absent, List(<<>>), Str(<<"tech">>), Str(<<"tech", ",", "sports">>),
    List(<<<<"ai">>>>), List(<<<<"ai">>, <<"climate">>>>) }

StyleChoice(k, c) ==
  CASE c = "absent" -> Absent
    [] c = "empty" -> Str(<<>>)
    [] c = "set" -> SetValue(k)

\* the preference snapshots a caller is taken to send when no
\* reasoning-model credential is configured: every style key absent, empty
\* or set, every shape of topics, with and without an unrecognized key
OfflineSnapshots ==
  { [k \in PrefKeys |->
       IF k = "topics" THEN tp
       ELSE IF k = "theme" THEN th
       ELSE StyleChoice(k, st[k])] :
      st \in [StyleKeys -> {"absent", "empty", "set"}],
      tp \in TopicsValues,
      th \in {Absent, SetValue("theme")} }

Complete(tp) ==
  [k \in PrefKeys |->
     IF k = "topics" THEN tp ELSE IF k = "theme" THEN Absent ELSE SetValue(k)]

\* the conversations a caller is taken to send
FirstTurn == <<Message("user", <<"hi">>)>>

SecondTurn ==
  <<Message("user", <<"hi">>),
    Message("assistant", <<"Preferred Tone of Voice (e.g., formal, casual, enthusiastic)?">>),
    Message("user", <<"casual">>)>>

\* a ChatRequest: preferences is None when has_preferences is FALSE
Request(messages, has_preferences, preferences) ==
  [messages |-> messages, has_preferences |-> has_preferences,
   preferences |-> preferences]

OfflineRequests ==
  { Request(m, TRUE, p) : m \in {FirstTurn, SecondTurn}, p \in OfflineSnapshots }
    \cup { Request(m, FALSE, EmptyPrefs) : m \in {FirstTurn, SecondTurn} }

\* the requests a caller is taken to send when a reasoning-model
\* credential is configured
OnlineRequests ==
  { Request(FirstTurn, FALSE, EmptyPrefs),
    Request(SecondTurn, TRUE,
            [EmptyPrefs EXCEPT !["tone"] = SetValue("tone"),
                               !["topics"] = Str(<<"tech">>),
                               !["theme"] = SetValue("theme")]),
    Request(FirstTurn, TRUE, Complete(List(<<<<"ai">>, <<"climate">>>>))) }

Requests(key) == IF key THEN OnlineRequests ELSE OfflineRequests

\* What the reasoning-model provider does with one chat request: the
\* request fails in transport, or an answer arrives with a status and a
\* body. A body is JSON or not; a JSON body may hold a message with a
\* content and tool calls; detail is the body as the diagnostic renders it.
Body(is_json, content, calls, detail) ==
  [is_json |-> is_json, content |-> content, tool_calls |-> calls,
   detail |-> detail]

NotJson == Body(FALSE, Absent, <<>>, <<"{'error': '<html>Bad Gateway</html>'}">>)
ErrorJson == Body(TRUE, Absent, <<>>, <<"{'error': {'message': 'Rate limit reached'}}">>)
TextBody(content) == Body(TRUE, content, <<>>, <<"{'choices': [{'message': {}}]}">>)
ToolBody(calls) == Body(TRUE, Null, calls, <<"{'choices': [{'message': {}}]}">>)

Answer(status, body) == [status |-> status, body |-> body]

\* no answer received yet
NoAnswer == Answer(0, Body(FALSE, Absent, <<>>, <<>>))

\* the answers to a chat request when n more tool calls may be requested
\* and issued have been requested so far in the turn
Answers(n, issued) ==
  { Answer(200, NotJson),
    Answer(200, TextBody(Str(<<"Here is your news.">>))),
    Answer(200, TextBody(Null)),
    Answer(304, NotJson),
    Answer(304, TextBody(Str(<<"Here is your news.">>))),
    Answer(429, ErrorJson),
    Answer(500, NotJson) }
    \cup { Answer(200, ToolBody(b)) : b \in Batches(n, issued) }

\* ------------------------------------------------------------------ state
VARIABLES
  OPENAI_API_KEY,  \* TRUE iff the reasoning-model credential is configured
  EXA_API_KEY,     \* TRUE iff the search credential is configured
  req,             \* the ChatRequest of the turn
  pc,              \* "chat", "fetching", "call", "tools", "done", "fault"
  prefs,           \* updated (offline) / prefs (tool loop)
  tlist,           \* the topics the offline fetch loop runs over
  result_texts,    \* the sections accumulated by the offline fetch loop
  oai_messages,    \* the transcript sent to the reasoning model
  tool_calls,      \* the tool calls of the response being executed
  tc,              \* position in tool_calls of the next call to execute
  response,        \* the ChatResponse, once pc = "done"
  exa_log,         \* the invocations of exa_news_fetch, in order
  summ_log,        \* the invocations of summarize_news, in order
  status_log,      \* the statuses of the reasoning-model calls, in order
  payload,         \* the messages of the latest request to the reasoning model
  resp             \* the latest answer of the reasoning model

vars ==
  <<OPENAI_API_KEY, EXA_API_KEY, req, pc, prefs, tlist, result_texts,
    oai_messages, tool_calls, tc, response, exa_log, summ_log, status_log,
    payload, resp>>

exchange == <<payload, resp>>

config == <<OPENAI_API_KEY, EXA_API_KEY, req>>

Init ==
  /\ OPENAI_API_KEY \in BOOLEAN
  /\ EXA_API_KEY \in BOOLEAN
  /\ req \in Requests(OPENAI_API_KEY)
  /\ pc = "chat"
  /\ prefs = EmptyPrefs
  /\ tlist = <<>>
  /\ result_texts = <<>>
  /\ oai_messages = <<>>
  /\ tool_calls = <<>>
  /\ tc = 1
  /\ response = NoResponse
  /\ exa_log = <<>>
  /\ summ_log = <<>>
  /\ status_log = <<>>
  /\ payload = <<>>
  /\ resp = NoAnswer

\* chat, lines 317-322: the preferences of the request, None read as {}
Supplied(r) == IF r.has_preferences THEN r.preferences ELSE EmptyPrefs

\* chat, lines 326-334: the turn ends with a response, or with a fault when
\* the assistant message is not a text (Message.content is a str)
Finish(assistant_msg, updated) ==
  IF assistant_msg.t = "str"
  THEN /\ pc' = "done"
       /\ response' = ChatResponse(req.messages, Render(assistant_msg), updated)
  ELSE /\ pc' = "fault"
       /\ response' = response

\* ----------------------------------------------------- offline (no key)
\* chat calls openai_chat_with_tools, which without a key asks the first
\* open onboarding question or starts the fetch loop
ChatOffline ==
  /\ pc = "chat"
  /\ ~OPENAI_API_KEY
  /\ LET updated == Supplied(req) IN
       /\ prefs' = updated
       /\ IF Missing(updated) # {}
          THEN /\ Finish(Str(questions[FirstMissing(updated)][2]), updated)
               /\ UNCHANGED <<tlist, result_texts>>
          ELSE /\ pc' = "fetching"
               /\ tlist' = TopicList(updated["topics"])
               /\ result_texts' = <<>>
               /\ UNCHANGED response
  /\ UNCHANGED <<config, exchange, oai_messages, tool_calls, tc, exa_log, summ_log, status_log>>

\* the arguments and the result of one summarize_news invocation
SummCall(items, style, format_, language, tone, out) ==
  [items |-> items, style |-> style, format_ |-> format_,
   language |-> language, tone |-> tone, out |-> out,
   result |-> summarize_news(OPENAI_API_KEY, items, out)]

\* one iteration of the loop over tlist, and the return after the last one
FetchTopic ==
  /\ pc = "fetching"
  /\ LET topic == tlist[Len(result_texts) + 1] IN
     \E eo \in ExaOutcomesFor(EXA_API_KEY), so \in SummOutcomesFor(OPENAI_API_KEY) :
       LET exa == exa_news_fetch(EXA_API_KEY, topic, NumResults, eo)
           call == SummCall(exa.results,
                            Get(prefs, "interaction", Str(<<"concise">>)),
                            Get(prefs, "format", Str(<<"bullet points">>)),
                            Get(prefs, "language", Str(<<"English">>)),
                            Get(prefs, "tone", Str(<<"neutral">>)), so)
           texts == Append(result_texts, Section(topic, exa, call.result))
       IN  /\ exa_log' = Append(exa_log, [topic |-> topic, num_results |-> NumResults, out |-> eo])
           /\ summ_log' = IF "results" \in exa.keys THEN Append(summ_log, call)
                          ELSE summ_log
           /\ result_texts' = texts
           /\ IF Len(texts) = Len(tlist)
              THEN Finish(Str(JoinSections(texts)), prefs)
              ELSE UNCHANGED <<pc, response>>
  /\ UNCHANGED <<config, exchange, prefs, tlist, oai_messages, tool_calls, tc, status_log>>

\* ------------------------------------------------- tool loop (with key)
\* chat calls openai_chat_with_tools, which with a key builds the
\* transcript and the mutable prefs and enters the loop
ChatDelegated ==
  /\ pc = "chat"
  /\ OPENAI_API_KEY
  /\ oai_messages' = InitialTranscript(req.messages, Supplied(req))
  /\ prefs' = Supplied(req)
  /\ pc' = "call"
  /\ UNCHANGED <<config, exchange, tlist, result_texts, tool_calls, tc, response,
                 exa_log, summ_log, status_log>>

\* (mutant) only server errors are taken as failures
IsProviderError_5xx(status) == status >= 500

\* resp.status_code >= 400
IsProviderError(status) == status >= ErrorStatus

\* f"OpenAI error {resp.status_code}: {detail}"
Diagnostic(status, detail) ==
  <<"OpenAI error ", ToString(status), ": ">> \o detail

\* the tool calls executed so far in the turn
Issued == Len(SelectSeq(oai_messages, LAMBDA e : e.role = "tool"))

\* the request of one loop iteration fails in transport: requests.post raises
ModelCallRaises ==
  /\ pc = "call"
  /\ pc' = "fault"
  /\ status_log' = Append(status_log, 0)
  /\ payload' = oai_messages
  /\ UNCHANGED <<config, resp, prefs, tlist, result_texts, oai_messages, tool_calls,
                 tc, response, exa_log, summ_log>>

\* (mutant) the loop is capped: after one batch of tool calls a further
\* request for tools is answered with the content as the final message
ModelCall_capped ==
  /\ pc = "call"
  /\ \E ans \in Answers(MaxCalls - Issued, Issued) :
       /\ status_log' = Append(status_log, ans.status)
       /\ payload' = oai_messages
       /\ resp' = ans
       /\ IF IsProviderError(ans.status)
          THEN /\ Finish(Str(Diagnostic(ans.status, ans.body.detail)), prefs)
               /\ UNCHANGED <<tool_calls, tc>>
          ELSE IF ~ans.body.is_json
          THEN /\ pc' = "fault"
               /\ UNCHANGED <<tool_calls, tc, response>>
          ELSE IF ans.body.tool_calls # <<>> /\ Issued = 0
          THEN /\ tool_calls' = ans.body.tool_calls
               /\ tc' = 1
               /\ pc' = "tools"
               /\ UNCHANGED response
          ELSE /\ Finish(Get(ans.body, "content", Str(<<>>)), prefs)
               /\ UNCHANGED <<tool_calls, tc>>
  /\ UNCHANGED <<config, prefs, tlist, result_texts, oai_messages,
                 exa_log, summ_log>>

\* the request of one loop iteration is answered: diagnostic, final message
\* or a batch of tool calls
ModelCall ==
  /\ pc = "call"
  /\ \E ans \in Answers(MaxCalls - Issued, Issued) :
       /\ status_log' = Append(status_log, ans.status)
       /\ payload' = oai_messages
       /\ resp' = ans
       /\ IF IsProviderError(ans.status)
          THEN /\ Finish(Str(Diagnostic(ans.status, ans.body.detail)), prefs)
               /\ UNCHANGED <<tool_calls, tc>>
          ELSE IF ~ans.body.is_json
          THEN /\ pc' = "fault"
               /\ UNCHANGED <<tool_calls, tc, response>>
          ELSE IF ans.body.tool_calls # <<>>
          THEN /\ tool_calls' = ans.body.tool_calls
               /\ tc' = 1
               /\ pc' = "tools"
               /\ UNCHANGED response
          ELSE /\ Finish(Get(ans.body, "content", Str(<<>>)), prefs)
               /\ UNCHANGED <<tool_calls, tc>>
  /\ UNCHANGED <<config, prefs, tlist, result_texts, oai_messages,
                 exa_log, summ_log>>

\* (mutant) the updates of a tool call are not kept in prefs
AfterTool_dropsPrefs(result, p) ==
  LET appended == Append(oai_messages,
                         Entry("tool", ResultJson(result), tool_calls[tc].id))
  IN  /\ prefs' = prefs
      /\ tc' = tc + 1
      /\ IF tc = Len(tool_calls)
         THEN /\ oai_messages' =
                   Append(appended,
                          Entry("system", PrefsNote("Updated preferences JSON: ", prefs), ""))
              /\ pc' = "call"
         ELSE /\ oai_messages' = appended
              /\ pc' = "tools"

\* (mutant) no system entry is appended after the batch
AfterTool_noNote(result, p) ==
  /\ prefs' = p
  /\ tc' = tc + 1
  /\ oai_messages' = Append(oai_messages,
                            Entry("tool", ResultJson(result), tool_calls[tc].id))
  /\ pc' = IF tc = Len(tool_calls) THEN "call" ELSE "tools"

\* the end of one iteration of the loop over tool_calls: the tool entry is
\* appended, and after the last call of the batch the system entry with
\* the latest prefs, before the loop goes round
AfterTool(result, p) ==
  LET appended == Append(oai_messages,
                         Entry("tool", ResultJson(result), tool_calls[tc].id))
  IN  /\ prefs' = p
      /\ tc' = tc + 1
      /\ IF tc = Len(tool_calls)
         THEN /\ oai_messages' =
                   Append(appended,
                          Entry("system", PrefsNote("Updated preferences JSON: ", p), ""))
              /\ pc' = "call"
         ELSE /\ oai_messages' = appended
              /\ pc' = "tools"

ToolFetch ==
  /\ pc = "tools"
  /\ tool_calls[tc].name = "exa_news_fetch"
  /\ LET fargs == tool_calls[tc].fargs IN
       IF fargs["topic"].t = "absent"
       THEN \* exa_news_fetch() without its required argument raises
            /\ pc' = "fault"
            /\ UNCHANGED <<prefs, tc, oai_messages, exa_log>>
       ELSE \E eo \in ExaOutcomesFor(EXA_API_KEY) :
              LET topic == Render(fargs["topic"]) IN
                /\ exa_log' = Append(exa_log, [topic |-> topic,
                                               num_results |-> DefaultNumResults,
                                               out |-> eo])
                /\ AfterTool(exa_news_fetch(EXA_API_KEY, topic,
                                            DefaultNumResults, eo), prefs)
  /\ UNCHANGED <<config, exchange, tlist, result_texts, tool_calls, response, summ_log,
                 status_log>>

\* (mutant) omitted fields are filled from the preferences of the request
SetDefault_stale(fargs, k, p, pk, default) ==
  IF fargs[k].t = "absent" THEN Get(Supplied(req), pk, default) ELSE fargs[k]

\* fargs.setdefault(k, prefs.get(pk, default))
SetDefault(fargs, k, p, pk, default) ==
  IF fargs[k].t = "absent" THEN Get(p, pk, default) ELSE fargs[k]

ToolSummarize ==
  /\ pc = "tools"
  /\ tool_calls[tc].name = "summarize_news"
  /\ \E so \in SummOutcomesFor(OPENAI_API_KEY) :
       LET fargs == tool_calls[tc].fargs
           call == SummCall(tool_calls[tc].items,
                     SetDefault(fargs, "style", prefs, "interaction", Str(<<"concise">>)),
                     SetDefault(fargs, "format_", prefs, "format", Str(<<"bullet points">>)),
                     SetDefault(fargs, "language", prefs, "language", Str(<<"English">>)),
                     SetDefault(fargs, "tone", prefs, "tone", Str(<<"neutral">>)), so)
       IN  /\ summ_log' = Append(summ_log, call)
           /\ AfterTool(call.result, prefs)
  /\ UNCHANGED <<config, exchange, tlist, result_texts, tool_calls, response, exa_log,
                 status_log>>

ToolSave ==
  /\ pc = "tools"
  /\ tool_calls[tc].name = "save_preferences"
  /\ LET p == save_preferences(prefs, tool_calls[tc].fargs) IN
       AfterTool([EmptyDict EXCEPT !.keys = {"ok", "preferences"},
                                   !.preferences = p], p)
  /\ UNCHANGED <<config, exchange, tlist, result_texts, tool_calls, response, exa_log,
                 summ_log, status_log>>

\* (mutant) an unregistered tool name raises
ToolUnknown_raises ==
  /\ pc = "tools"
  /\ tool_calls[tc].name \notin {"exa_news_fetch", "summarize_news", "save_preferences"}
  /\ pc' = "fault"
  /\ UNCHANGED <<config, exchange, prefs, tc, oai_messages, tlist, result_texts,
                 tool_calls, response, exa_log, summ_log, status_log>>

ToolUnknown ==
  /\ pc = "tools"
  /\ tool_calls[tc].name \notin {"exa_news_fetch", "summarize_news", "save_preferences"}
  /\ AfterTool([EmptyDict EXCEPT !.keys = {"error"},
                                 !.error = <<"Unknown tool ", tool_calls[tc].name>>],
               prefs)
  /\ UNCHANGED <<config, exchange, tlist, result_texts, tool_calls, response, exa_log,
                 summ_log, status_log>>

Next ==
  \/ ChatOffline
  \/ FetchTopic
  \/ ChatDelegated
  \/ ModelCallRaises
  \/ ModelCall
  \/ ToolFetch
  \/ ToolSummarize
  \/ ToolSave
  \/ ToolUnknown

Spec == Init /\ [][Next]_vars

\* A turn without a reasoning-model credential, run to its end: the handler
\* is sequential code whose outbound calls return or time out, so each of
\* its steps is eventually taken.
InitOffline == Init /\ ~OPENAI_API_KEY

NextOffline == ChatOffline \/ FetchTopic

OfflineSpec == InitOffline /\ [][NextOffline]_vars /\ WF_vars(NextOffline)

\* ================================================================ claims
Last(q) == q[Len(q)]

Offline == ~OPENAI_API_KEY

\* the content of the assistant message of the response
Reply == Last(response.messages).content

SomeUnset(p) == \E k \in Recognized : ~Truthy(p[k])

\* C1: without a reasoning-model credential, when at least one of the five
\* recognized keys of the snapshot is unset (absent or falsy), the reply is
\* exactly the onboarding question of the first unset key in the order
\* tone, format, language, interaction, topics, whatever the other keys hold.
C1_FirstUnsetQuestion ==
  (Offline /\ pc # "chat" /\ SomeUnset(req.preferences)) =>
     /\ pc = "done"
     /\ \E n \in 1..Len(required) :
          /\ ~Truthy(req.preferences[required[n]])
          /\ \A m \in 1..(n - 1) : Truthy(req.preferences[required[m]])
          /\ questions[n][1] = required[n]
          /\ Reply = questions[n][2]

\* C1 witness: tone set, format empty, language absent, topics set: the
\* format question is asked
C1_Witness ==
  /\ Offline /\ pc = "done"
  /\ Truthy(req.preferences["tone"])
  /\ req.preferences["format"] = Str(<<>>)
  /\ req.preferences["language"] = Absent
  /\ Truthy(req.preferences["topics"])
  /\ Reply = <<"Preferred Response Format (e.g., bullet points, paragraphs)?">>

\* C2: without a reasoning-model credential, the fetch loop is entered only
\* with complete preferences; in a turn with an unset key neither adapter
\* is invoked and the turn ends right after the onboarding check.
C2_NoFetchBeforeComplete ==
  /\ (Offline /\ SomeUnset(req.preferences)) =>
        /\ pc \in {"chat", "done"}
        /\ exa_log = <<>>
        /\ summ_log = <<>>
  /\ (Offline /\ pc = "fetching") => ~SomeUnset(req.preferences)

\* C2 witness: only topics is unset, the search credential is configured,
\* and the turn is over without any adapter invocation
C2_Witness ==
  /\ Offline /\ EXA_API_KEY /\ pc = "done"
  /\ \A k \in StyleKeys : Truthy(req.preferences[k])
  /\ req.preferences["topics"] = List(<<>>)
  /\ exa_log = <<>> /\ summ_log = <<>>

\* the topics of the snapshot as a sequence
C3_Topics ==
  LET tp == req.preferences["topics"]
  IN  IF tp.t = "list" THEN tp.v ELSE <<tp.v[1]>>

\* the n-th retrieval of the turn succeeded
C3_Succeeded(n) == EXA_API_KEY /\ exa_log[n].out.kind = "ok"

\* the error message of the n-th retrieval of the turn
C3_Error(n) ==
  IF EXA_API_KEY THEN exa_log[n].out.msg ELSE <<"Missing EXA_API_KEY">>

\* the position in summ_log of the summarization for the n-th topic
C3_SummIndex(n) == Cardinality({m \in 1..n : C3_Succeeded(m)})

C3_ExpectedSection(n) ==
  IF C3_Succeeded(n)
  THEN <<"Topic: ">> \o C3_Topics[n] \o <<"\n">>
         \o summ_log[C3_SummIndex(n)].result.summary
  ELSE <<"Topic: ">> \o C3_Topics[n] \o <<"\nExa error: ">> \o C3_Error(n)

RECURSIVE C3_BlankLineJoined(_)
C3_BlankLineJoined(n) ==
  IF n = 0 THEN <<>>
  ELSE IF n = 1 THEN C3_ExpectedSection(1)
  ELSE C3_BlankLineJoined(n - 1) \o <<"\n\n">> \o C3_ExpectedSection(n)

\* C3: without a reasoning-model credential and with complete preferences,
\* the reply has one section per topic in topics order (a single value
\* counting as one topic): exa_news_fetch is called once per topic with
\* count 5; a successful retrieval gives "Topic: {topic}\n{summary}" with
\* one summarize_news call on its results, a failed one gives
\* "Topic: {topic}\nExa error: {error}" without a summarize_news call and
\* without stopping later topics; sections are joined by a blank line.
C3_SectionPerTopic ==
  (Offline /\ pc = "done" /\ ~SomeUnset(req.preferences)) =>
     /\ Len(exa_log) = Len(C3_Topics)
     /\ \A n \in 1..Len(exa_log) :
          /\ exa_log[n].topic = C3_Topics[n]
          /\ exa_log[n].num_results = 5
          /\ C3_Succeeded(n) =>
               summ_log[C3_SummIndex(n)].items = exa_log[n].out.data
     /\ Len(summ_log) = C3_SummIndex(Len(exa_log))
     /\ Reply = C3_BlankLineJoined(Len(C3_Topics))

\* C3 witness: topics ["ai", "climate"], "ai" retrieved with one article,
\* "climate" failing
C3_Witness ==
  /\ Offline /\ pc = "done"
  /\ req.preferences["topics"] = List(<<<<"ai">>, <<"climate">>>>)
  /\ Len(exa_log) = 2
  /\ exa_log[1].out.kind = "ok" /\ exa_log[1].out.data = <<ItemAB>>
  /\ exa_log[2].out.kind = "raise"
  /\ Len(summ_log) = 1
  /\ Reply = <<"Topic: ", "ai", "\n", "- ", "A", ": ", "B", "\n\n",
               "Topic: ", "climate", "\nExa error: ", "Read timed out">>

\* C4 (as claimed): every turn, with or without a reasoning-model
\* credential, ends with an assistant message and never with a fault
\* escaping the turn, whatever each external call does (success, non-2xx
\* status, transport failure or timeout).
C4_NeverAFault == pc # "fault"

\* the statuses of the reasoning-model calls that were answered (0 stands
\* for a request that failed in transport)
Answered(n) == status_log[n] # 0

\* the number of completed tool batches: one system entry announcing the
\* updated preferences is appended per batch
Batches_done ==
  Len(SelectSeq(oai_messages,
                LAMBDA e : e.role = "system"
                           /\ e.content.text = <<"Updated preferences JSON: ">>))

C6_Batch ==
  /\ OPENAI_API_KEY /\ pc = "call"
  /\ Len(tool_calls) = 2 /\ tc = 3
  /\ \A n \in 1..2 : tool_calls[n].name = "save_preferences"
  /\ tool_calls[1].fargs = Args([tone |-> Str(<<"formal">>)])
  /\ tool_calls[2].fargs = Args([topics |-> Str(<<"tech", ",", "sports">>)])

\* C6: with a reasoning-model credential, a batch of
\* save_preferences(tone="formal") then save_preferences(topics="tech,sports")
\* leaves tone = "formal" and topics = ["tech", "sports"]; and a final
\* assistant text is produced only by a reasoning-model call made after
\* every executed batch (calls made = batches executed + 1 at turn end,
\* and no turn ends while a batch is being executed or awaits its call).
C6_BatchThenModelCall ==
  /\ C6_Batch =>
       /\ prefs["tone"] = Str(<<"formal">>)
       /\ prefs["topics"] = List(<<<<"tech">>, <<"sports">>>>)
       /\ response = NoResponse
  /\ (OPENAI_API_KEY /\ pc = "done") => Len(status_log) = Batches_done + 1
  /\ (OPENAI_API_KEY /\ pc = "call") =>
       (Len(status_log) = Batches_done /\ response = NoResponse)
  /\ (OPENAI_API_KEY /\ pc = "tools") => response = NoResponse

\* C6 witness: the turn ended with a text after that batch, on the second
\* reasoning-model call
C6_Witness ==
  /\ pc = "done" /\ OPENAI_API_KEY
  /\ Len(tool_calls) = 2
  /\ tool_calls[1].fargs = Args([tone |-> Str(<<"formal">>)])
  /\ tool_calls[2].fargs = Args([topics |-> Str(<<"tech", ",", "sports">>)])
  /\ Len(status_log) = 2
  /\ response.updatedPreferences["tone"] = Str(<<"formal">>)
  /\ response.updatedPreferences["topics"] = List(<<<<"tech">>, <<"sports">>>>)
  /\ Reply = <<"Here is your news.">>

\* C7: for every turn that returns, the response's messages are the
\* request's messages, unchanged and in order, followed by exactly one
\* message of role assistant; no transcript entry made inside the turn
\* (system, tool) appears in it.
C7_HistoryPlusOneReply ==
  pc = "done" =>
    /\ Len(response.messages) = Len(req.messages) + 1
    /\ \A n \in 1..Len(req.messages) : response.messages[n] = req.messages[n]
    /\ Last(response.messages).role = "assistant"

\* C7 witness: a turn with two tool batches (two tool entries and two
\* synthetic system entries in the transcript) that returned
C7_Witness ==
  /\ pc = "done" /\ OPENAI_API_KEY
  /\ Batches_done = 2
  /\ Len(oai_messages) = Len(req.messages) + 6
  /\ Len(req.messages) = 3
  /\ Len(response.messages) = 4

\* the tool call executed last is a save_preferences whose topics
\* argument is a text
SavedTopicsText ==
  /\ pc \in {"tools", "call"}
  /\ tc > 1
  /\ tool_calls[tc - 1].name = "save_preferences"
  /\ tool_calls[tc - 1].fargs["topics"].t = "str"

SavedText == tool_calls[tc - 1].fargs["topics"].v[1]

HasComma(text) == \E n \in 1..Len(text) : text[n] = ","

\* the preferences were empty when the turn began and the save is the
\* first tool call of the turn: apply({}, updates)
FirstSaveOnEmpty ==
  /\ req.preferences = EmptyPrefs
  /\ Len(status_log) = 1
  /\ tc = 2

\* the pieces of a text that are neither commas nor whitespace, in order
Words(text) == SelectSeq(text, LAMBDA c : c # "," /\ ~IsSpace(c))

RECURSIVE Flatten(_)
Flatten(tokens) ==
  IF tokens = <<>> THEN <<>> ELSE Head(tokens) \o Flatten(Tail(tokens))

\* C8: a save_preferences whose topics value is a text containing commas
\* stores topics as the sequence of its comma-separated tokens, each
\* trimmed of surrounding whitespace, empty tokens dropped, order kept;
\* apply({}, {topics: "tech, sports"}) gives topics = ["tech", "sports"].
C8_CommaTextIsSplit ==
  (SavedTopicsText /\ HasComma(SavedText)) =>
     /\ prefs["topics"].t = "list"
     /\ \A n \in 1..Len(prefs["topics"].v) :
          LET token == prefs["topics"].v[n] IN
            /\ token # <<>>
            /\ ~HasComma(token)
            /\ ~IsSpace(Head(token)) /\ ~IsSpace(Last(token))
     /\ Words(Flatten(prefs["topics"].v)) = Words(SavedText)
     /\ Len(prefs["topics"].v) <= Len(SelectSeq(SavedText, LAMBDA c : c = ",")) + 1
     /\ (SavedText = <<"tech", ",", " ", "sports">> /\ FirstSaveOnEmpty) =>
           prefs = [EmptyPrefs EXCEPT
                      !["topics"] = List(<<<<"tech">>, <<"sports">>>>)]
     /\ SavedText = <<" ", "ai", " ", ",", ",", "world", " ", "news", ",">> =>
           prefs["topics"] = List(<<<<"ai">>, <<"world", " ", "news">>>>)

\* C8 witness: apply({}, {topics: "tech, sports"}) has been executed
C8_Witness ==
  /\ SavedTopicsText /\ FirstSaveOnEmpty
  /\ SavedText = <<"tech", ",", " ", "sports">>
  /\ prefs["topics"] = List(<<<<"tech">>, <<"sports">>>>)

\* C9 (as claimed): a save_preferences whose topics value is a text without
\* commas stores that text unchanged, not wrapped into a sequence.
C9_PlainTextPassesThrough ==
  (SavedTopicsText /\ ~HasComma(SavedText)) =>
     prefs["topics"] = Str(SavedText)

\* C9 (amended): a save_preferences whose topics value is a text without
\* commas stores it wrapped into a sequence, namely the one-element
\* sequence of the text trimmed of surrounding whitespace (the empty
\* sequence when nothing remains); apply({}, {topics: "tech"}) gives
\* topics = ["tech"].
C9_PlainTextIsWrapped ==
  (SavedTopicsText /\ ~HasComma(SavedText)) =>
     /\ prefs["topics"].t = "list"
     /\ Len(prefs["topics"].v) <= 1
     /\ Words(Flatten(prefs["topics"].v)) = Words(SavedText)
     /\ (SavedText # <<>> /\ ~IsSpace(Head(SavedText)) /\ ~IsSpace(Last(SavedText))) =>
           prefs["topics"] = List(<<SavedText>>)
     /\ (SavedText = <<"tech">> /\ FirstSaveOnEmpty) =>
           prefs = [EmptyPrefs EXCEPT !["topics"] = List(<<<<"tech">>>>)]

\* C9 witness: apply({}, {topics: "tech"}) has been executed
C9_Witness ==
  /\ SavedTopicsText /\ FirstSaveOnEmpty
  /\ SavedText = <<"tech">>
  /\ prefs["topics"] = List(<<<<"tech">>>>)

\* one line of the deterministic rendering
C10_Line(it) ==
  <<"- ">> \o (IF it.title.t = "str" THEN it.title.v[1] ELSE <<"None">>)
    \o <<": ">>
    \o (IF it.summary.t = "str" /\ it.summary.v[1] # <<>>
        THEN it.summary.v[1] ELSE <<"No summary available">>)

RECURSIVE C10_Rendering(_)
C10_Rendering(items) ==
  IF items = <<>> THEN <<>>
  ELSE IF Len(items) = 1 THEN C10_Line(items[1])
  ELSE C10_Line(items[1]) \o <<"\n">> \o C10_Rendering(Tail(items))

\* C10: summarize_news always returns a result with a summary text; with no
\* language-model credential it is the bullet rendering (one line
\* "- {title}: {summary or 'No summary available'}" per item, in order,
\* joined by newlines; [{title: "A", summary: "B"}] gives "- A: B"; equal
\* arguments give equal results) and no outbound call is made; when the
\* outbound call fails it is the same rendering plus a warning holding the
\* failure message; a warning is present only in that case.
C10_SummaryAlways ==
  \A n \in 1..Len(summ_log) :
    LET call == summ_log[n] IN
      /\ "summary" \in call.result.keys
      /\ call.result.keys \subseteq {"summary", "warning"}
      /\ ("warning" \in call.result.keys) <=> (call.out.kind = "raise")
      /\ Offline => call.out.kind = "none"
      /\ call.out.kind \in {"none", "raise"} =>
           call.result.summary = C10_Rendering(call.items)
      /\ call.out.kind = "raise" => call.result.warning = call.out.msg
      /\ (Offline /\ call.items = <<ItemAB>>) =>
           call.result.summary = <<"- ", "A", ": ", "B">>
      /\ \A m \in 1..Len(summ_log) :
           (Offline /\ summ_log[m].items = call.items
              /\ summ_log[m].style = call.style
              /\ summ_log[m].format_ = call.format_
              /\ summ_log[m].language = call.language
              /\ summ_log[m].tone = call.tone) =>
                summ_log[m].result = call.result

\* C10 witness: a summarization whose outbound call failed returned the
\* rendering of its two items with the warning
C10_Witness ==
  \E n \in 1..Len(summ_log) :
    /\ summ_log[n].out.kind = "raise"
    /\ summ_log[n].result.keys = {"summary", "warning"}
    /\ summ_log[n].result.warning = <<"500 Server Error">>
    /\ summ_log[n].result.summary =
         <<"- ", "C", ": ", "No summary available", "\n", "- ", "A", ": ", "B">>

\* C11 (as claimed): with a reasoning-model credential, no fetch tool call
\* reaches exa_news_fetch and no summarize tool call reaches summarize_news
\* while any of the five recognized keys is unset in the current
\* preferences.
C11_NoNewsBeforeOnboarding ==
  [][ (OPENAI_API_KEY /\ (exa_log' # exa_log \/ summ_log' # summ_log)) =>
        ~SomeUnset(prefs) ]_vars

\* the style arguments of summarize_news with the preference key and the
\* default each falls back to
StyleFields ==
  { <<"style", "interaction", Str(<<"concise">>)>>,
    <<"format_", "format", Str(<<"bullet points">>)>>,
    <<"language", "language", Str(<<"English">>)>>,
    <<"tone", "tone", Str(<<"neutral">>)>> }

\* C12: the tool calls of a batch are executed one at a time in the order
\* received and a later call sees the effects of earlier ones: every style
\* field a summarize_news call omits is filled from the preferences as they
\* are when the call is reached (after the save_preferences calls before it
\* in the batch), falling back to the fixed default, and a style field the
\* call supplies is passed as supplied.
C12_StyleFromCurrentPrefs ==
  [][ /\ (pc = "tools" /\ pc' # "fault") => tc' = tc + 1
      /\ (pc = "tools" /\ summ_log' # summ_log) =>
           LET call == Last(summ_log')
               fargs == tool_calls[tc].fargs
           IN  /\ tool_calls[tc].name = "summarize_news"
               /\ Len(summ_log') = Len(summ_log) + 1
               /\ call.items = tool_calls[tc].items
               /\ \A f \in StyleFields :
                    call[f[1]] = IF fargs[f[1]].t # "absent" THEN fargs[f[1]]
                                 ELSE IF prefs[f[2]].t # "absent" THEN prefs[f[2]]
                                 ELSE f[3]
               /\ (tc > 1 /\ tool_calls[tc - 1].name = "save_preferences"
                     /\ tool_calls[tc - 1].fargs["tone"] = Str(<<"formal">>)
                     /\ fargs["tone"].t = "absent") =>
                    call.tone = Str(<<"formal">>) ]_vars

\* C12 witness: the preferences of the request have tone "casual" and
\* interaction "detailed"; save_preferences(tone="formal") then
\* summarize_news(style="concise") ran in one batch
C12_Witness ==
  /\ OPENAI_API_KEY /\ pc = "call"
  /\ Supplied(req)["tone"] = Str(<<"casual">>)
  /\ Supplied(req)["interaction"] = Str(<<"detailed">>)
  /\ Len(tool_calls) = 2 /\ tc = 3
  /\ tool_calls[1].fargs = Args([tone |-> Str(<<"formal">>)])
  /\ tool_calls[2].name = "summarize_news"
  /\ Len(summ_log) = 1
  /\ summ_log[1].tone = Str(<<"formal">>)
  /\ summ_log[1].style = Str(<<"concise">>)
  /\ summ_log[1].language = Str(<<"Spanish">>)

\* C13: an iteration whose answer requests n >= 1 tool calls appends to the
\* transcript n tool entries, in call order and each with the token of its
\* call, then one system entry holding the preferences after the batch, and
\* nothing else; earlier entries are never changed or removed; each request
\* to the reasoning model carries the whole transcript.
C13_BatchAppendsEntries ==
  [][ /\ status_log' # status_log =>
           (payload' = oai_messages /\ oai_messages' = oai_messages)
      /\ (pc # "chat") =>
           /\ Len(oai_messages') >= Len(oai_messages)
           /\ SubSeq(oai_messages', 1, Len(oai_messages)) = oai_messages
      /\ (pc = "tools" /\ pc' = "tools") =>
           /\ Len(oai_messages') = Len(oai_messages) + 1
           /\ Last(oai_messages').role = "tool"
           /\ Last(oai_messages').tool_call_id = tool_calls[tc].id
           /\ tc < Len(tool_calls)
      /\ (pc = "tools" /\ pc' = "call") =>
           LET n == Len(tool_calls)
               base == Len(payload)
           IN  /\ tc = n
               /\ Len(oai_messages') = base + n + 1
               /\ SubSeq(oai_messages', 1, base) = payload
               /\ \A j \in 1..n :
                    /\ oai_messages'[base + j].role = "tool"
                    /\ oai_messages'[base + j].tool_call_id = tool_calls[j].id
                    /\ oai_messages'[base + j].content.json = "result"
               /\ \A j, k \in 1..n : j # k => tool_calls[j].id # tool_calls[k].id
               /\ Last(oai_messages').role = "system"
               /\ Last(oai_messages').content.json = "preferences"
               /\ Last(oai_messages').content.preferences = prefs'
      /\ (pc = "tools" /\ pc' = "fault") => oai_messages' = oai_messages ]_vars

\* C13 witness: a batch of two calls, the first a save_preferences that
\* changed the preferences, has been executed and the loop is back at the
\* request
C13_Witness ==
  /\ OPENAI_API_KEY /\ pc = "call"
  /\ Len(tool_calls) = 2 /\ tc = 3
  /\ tool_calls[1].name = "save_preferences"
  /\ tool_calls[2].name = "exa_news_fetch"
  /\ prefs # Supplied(req)
  /\ Len(oai_messages) = Len(req.messages) + 2 + 3
  /\ Last(oai_messages).content.preferences = prefs
  /\ oai_messages[Len(oai_messages) - 2].tool_call_id = "call_1"
  /\ oai_messages[Len(oai_messages) - 1].tool_call_id = "call_2"

Registered == {"exa_news_fetch", "summarize_news", "save_preferences"}

\* C14: a tool call whose name is not one of the three registered tools
\* gives the tool result {error: "Unknown tool {name}"} and no fault: the
\* preferences stay as they are, no adapter is invoked, the batch goes on
\* with its next call, and after the last call the loop goes on to another
\* request to the reasoning model.
C14_UnknownToolIsReported ==
  [][ (pc = "tools" /\ tool_calls[tc].name \notin Registered) =>
        /\ pc' = IF tc = Len(tool_calls) THEN "call" ELSE "tools"
        /\ tc' = tc + 1
        /\ tool_calls' = tool_calls
        /\ prefs' = prefs
        /\ exa_log' = exa_log /\ summ_log' = summ_log
        /\ Len(oai_messages') > Len(oai_messages)
        /\ LET e == oai_messages'[Len(oai_messages) + 1] IN
             /\ e.role = "tool"
             /\ e.tool_call_id = tool_calls[tc].id
             /\ e.content.result.keys = {"error"}
             /\ e.content.result.error = <<"Unknown tool ", tool_calls[tc].name>> ]_vars

\* C14 witness: a batch of get_weather then save_preferences(tone="formal")
\* was executed to its end and the turn ended on the next answer
C14_Witness ==
  /\ OPENAI_API_KEY /\ pc = "done"
  /\ Len(tool_calls) = 2
  /\ tool_calls[1].name = "get_weather"
  /\ tool_calls[2].fargs = Args([tone |-> Str(<<"formal">>)])
  /\ Len(status_log) = 2
  /\ response.updatedPreferences["tone"] = Str(<<"formal">>)
  /\ \E n \in 1..Len(oai_messages) :
       /\ oai_messages[n].content.result.error = <<"Unknown tool ", "get_weather">>
       /\ oai_messages[n + 1].role = "tool"

\* the latest answer requests at least one tool call
WantsTools ==
  /\ resp.status < 400
  /\ resp.body.is_json
  /\ resp.body.tool_calls # <<>>

Rank(p) ==
  CASE p = "chat" -> 0
    [] p = "fetching" -> 1
    [] p = "done" -> 2
    [] OTHER -> 3

\* C16: every turn without a reasoning-model credential terminates: it
\* goes from the onboarding check to the fetch loop only with complete
\* preferences, then to its end, never back; exa_news_fetch is called at
\* most once per topic, in topics order, without retry, whatever the
\* adapters return.
C16_OfflineTurnTerminates ==
  /\ [][ /\ Rank(pc') >= Rank(pc)
         /\ pc' \in {"chat", "fetching", "done"}
         /\ (pc = "chat" /\ pc' = "fetching") => ~SomeUnset(Supplied(req))
         /\ Len(exa_log') <= Len(exa_log) + 1 ]_vars
  /\ [](exa_log # <<>> =>
          /\ Len(exa_log) <= Len(C3_Topics)
          /\ \A n \in 1..Len(exa_log) : exa_log[n].topic = C3_Topics[n])
  /\ <>(pc = "done")

\* C16 witness: a turn over two topics ended after one retrieval that
\* failed and one that returned an empty result list
C16_Witness ==
  /\ Offline /\ pc = "done"
  /\ Len(exa_log) = 2
  /\ exa_log[1].out.kind = "raise"
  /\ exa_log[2].out.kind = "ok" /\ exa_log[2].out.data = <<>>

FiveKeys == {"tone", "format", "language", "interaction", "topics"}

\* a save_preferences call is about to be executed
AtSave == pc = "tools" /\ tool_calls[tc].name = "save_preferences"

\* C17: a save_preferences call changes only recognized keys that are
\* present and non-null in its arguments: each takes the value of the
\* arguments (a topics text in its sequence form), overwriting what was
\* there; every other key, absent or null in the arguments or not
\* recognized, keeps its value; the tool result echoes the merged
\* preferences.
C17_SaveIsMerge ==
  [][ AtSave =>
        LET fargs == tool_calls[tc].fargs
            echo == oai_messages'[Len(oai_messages) + 1]
        IN  /\ \A k \in PrefKeys :
                 IF k \in FiveKeys /\ fargs[k].t \notin {"absent", "null"}
                 THEN IF k = "topics" /\ fargs[k].t = "str"
                      THEN /\ prefs'[k].t = "list"
                           /\ Words(Flatten(prefs'[k].v)) = Words(fargs[k].v[1])
                      ELSE prefs'[k] = fargs[k]
                 ELSE prefs'[k] = prefs[k]
            /\ echo.role = "tool"
            /\ echo.content.result.keys = {"ok", "preferences"}
            /\ echo.content.result.preferences = prefs' ]_vars

\* C17 witness: on complete preferences with tone "casual" and no theme,
\* save_preferences(topics=["ai"], tone=null, theme="dark") was executed:
\* topics is overwritten, tone kept, theme not stored
C17_Witness ==
  /\ OPENAI_API_KEY /\ pc \in {"tools", "call"} /\ tc = 2
  /\ Len(status_log) = 1
  /\ tool_calls[1].fargs = Args([topics |-> List(<<<<"ai">>>>), tone |-> Null,
                                 theme |-> Str(<<"dark">>)])
  /\ Supplied(req)["topics"] = List(<<<<"ai">>, <<"climate">>>>)
  /\ prefs["topics"] = List(<<<<"ai">>>>)
  /\ prefs["tone"] = Str(<<"casual">>)
  /\ prefs["theme"] = Absent
  /\ prefs["format"] = Str(<<"paragraphs">>)

\* C18 (as claimed): once set, topics is always a sequence in the
\* preferences held during the turn and handed back at its end, also when
\* it was supplied as a text.
C18_TopicsAlwaysSequence ==
  /\ (pc # "chat" /\ prefs["topics"].t \notin {"absent", "null"}) =>
        prefs["topics"].t = "list"
  /\ (pc = "done" /\ response.updatedPreferences["topics"].t \notin {"absent", "null"}) =>
        response.updatedPreferences["topics"].t = "list"

\* C18 (amended): a topics value written by a save_preferences call is
\* always a sequence (a text argument is split, a sequence argument kept),
\* and once topics is a sequence it stays one for the rest of the turn; a
\* topics value of the caller's snapshot is not normalised: it is held, and
\* handed back, in the shape it was given until a save_preferences call
\* replaces it.
C18_SavedTopicsIsSequence ==
  [][ /\ pc = "chat" =>
           prefs'["topics"] =
             (IF req.has_preferences THEN req.preferences["topics"] ELSE Absent)
      /\ pc # "chat" =>
           /\ prefs'["topics"] # prefs["topics"] =>
                /\ AtSave
                /\ tool_calls[tc].fargs["topics"].t \in {"str", "list"}
                /\ prefs'["topics"].t = "list"
           /\ (AtSave /\ tool_calls[tc].fargs["topics"].t \in {"str", "list"}) =>
                prefs'["topics"].t = "list"
           /\ prefs["topics"].t = "list" => prefs'["topics"].t = "list"
      /\ pc' = "done" =>
           response'.updatedPreferences["topics"] = prefs'["topics"] ]_vars

\* C18 witness: the snapshot held topics as the text "tech", a
\* save_preferences(topics="tech,sports") replaced it, and the turn handed
\* back the sequence
C18_Witness ==
  /\ OPENAI_API_KEY /\ pc = "done"
  /\ req.preferences["topics"] = Str(<<"tech">>)
  /\ Len(tool_calls) = 1
  /\ tool_calls[1].fargs = Args([topics |-> Str(<<"tech", ",", "sports">>)])
  /\ response.updatedPreferences["topics"] = List(<<<<"tech">>, <<"sports">>>>)

\* the preferences of the caller, the empty mapping when none was sent
CallerPrefs == IF req.has_preferences THEN req.preferences ELSE EmptyPrefs

\* C19: without a reasoning-model credential the preferences are never
\* modified: on every path (onboarding question, fetch-and-summarize
\* reply, failing retrievals) the preferences handed back are the caller's
\* snapshot, the empty mapping when none was sent, unrecognized keys
\* included.
C19_OfflinePrefsUnchanged ==
  /\ (Offline /\ pc # "chat") => prefs = CallerPrefs
  /\ (Offline /\ pc = "done") =>
        /\ response.updatedPreferences = CallerPrefs
        /\ \A k \in PrefKeys \ FiveKeys :
             response.updatedPreferences[k] = req.preferences[k]

\* C19 witness: complete preferences with the unrecognized key theme, one
\* topic whose retrieval failed, and the reply sent
C19_Witness ==
  /\ Offline /\ pc = "done"
  /\ req.preferences["theme"] = Str(<<"dark">>)
  /\ Len(exa_log) = 1 /\ exa_log[1].out.kind = "raise"
  /\ response.updatedPreferences["theme"] = Str(<<"dark">>)
  /\ response.updatedPreferences["topics"] = Str(<<"tech", ",", "sports">>)

\* the preferences p with the updates of one save_preferences call
C20_Applied(p, fargs) ==
  [k \in PrefKeys |->
     IF k \in FiveKeys /\ fargs[k].t \notin {"absent", "null"}
     THEN IF k = "topics" /\ fargs[k].t = "str"
          THEN List(SplitTopics(fargs[k].v[1]))
          ELSE fargs[k]
     ELSE p[k]]

\* C20: with a reasoning-model credential the preferences handed back are
\* the caller's snapshot with the save_preferences calls of the executed
\* batches applied in execution order and nothing else: the turn starts
\* from the snapshot, each executed save_preferences applies its updates,
\* no other step changes the preferences, and every end of the turn with a
\* message, the provider-failure diagnostic included, hands back the
\* preferences as they then are (nothing is rolled back).
C20_OnlinePrefsAreSavesApplied ==
  [][ OPENAI_API_KEY =>
        /\ pc = "chat" => prefs' = CallerPrefs
        /\ (AtSave /\ pc' # "fault") =>
             prefs' = C20_Applied(prefs, tool_calls[tc].fargs)
        /\ (pc # "chat" /\ ~AtSave) => prefs' = prefs
        /\ pc' = "done" =>
             /\ pc = "call"
             /\ response'.updatedPreferences = prefs ]_vars

\* C20 witness: after a batch with save_preferences(tone="formal") on a
\* snapshot with tone "casual", the next request was answered 500 and the
\* diagnostic was sent with tone "formal" handed back
C20_Witness ==
  /\ OPENAI_API_KEY /\ pc = "done"
  /\ Len(status_log) = 2 /\ status_log[2] = 500
  /\ Reply[1] = "OpenAI error "
  /\ req.preferences["tone"] = Str(<<"casual">>)
  /\ response.updatedPreferences["tone"] = Str(<<"formal">>)
  /\ \A k \in PrefKeys \ {"tone"} :
       response.updatedPreferences[k] = req.preferences[k]

====
